---- MODULE Spec2Model ----
(***************************************************************************)
(* A model of bin/minify_assets.py: the Minifier class (glob resolution,   *)
(* extension dispatch, per-file execution) and the main entry point.       *)
(*                                                                         *)
(* A path string is [pre, name]: pre is the directory part as the glob     *)
(* pattern spelled it and name is the base filename split at its dots      *)
(* (<<"a","min","js">> is "a.min.js").  All patterns look into the one     *)
(* directory x; "x/" and "./x/" are two spellings of it, so two path       *)
(* strings can name the same file.  The file system maps the base names    *)
(* that exist in x to a directory or to a text file.  A text is a sequence *)
(* of tokens: "c" code, "w" removable white space, "s" a token only the    *)
(* stylesheet minifier removes, "k" a comment only the markup minifier     *)
(* removes, "x" syntax the minifier rejects.  hist records, for every call *)
(* of _execute in the current run, what it read, wrote and printed and how *)
(* it ended; firstTasks keeps the task paths of the first run.             *)
(***************************************************************************)
EXTENDS Integers, Sequences, FiniteSets, TLC

VARIABLES fs, instructions, tasks, pc, idx, log, hist, run, firstTasks,
          pSrc, pMin, pOut

vars == <<fs, instructions, tasks, pc, idx, log, hist, run, firstTasks,
          pSrc, pMin, pOut>>

MaxPatterns == 2
MaxRuns == 2
MaxSrcLen == 12

None == "<None>"

RECURSIVE Filter(_, _)
Filter(text, drop) ==
    IF text = <<>> THEN <<>>
    ELSE IF Head(text) \in drop THEN Filter(Tail(text), drop)
         ELSE <<Head(text)>> \o Filter(Tail(text), drop)

Malformed(content) == \E i \in 1..Len(content) : content[i] = "x"

jsmin(content) == Filter(content, {"w"})
cssmin(content) == Filter(content, {"w", "s"})
htmlmin(content) == Filter(content, {"w", "k"})

handlers == [e \in {"js", "css", "html", "jinja2"} |->
                CASE e = "js" -> "jsmin"
                  [] e = "css" -> "cssmin"
                  [] OTHER -> "_htmlmin"]

handlers_get(e) == IF e \in DOMAIN handlers THEN handlers[e] ELSE None

Call(handler, content) ==
    CASE handler = "jsmin" -> jsmin(content)
      [] handler = "cssmin" -> cssmin(content)
      [] OTHER -> htmlmin(content)

isfile(f, path) == path.name \in DOMAIN f /\ f[path.name].kind = "file"

extNoIsfile(f, path) ==
    IF Len(path.name) < 2 THEN None ELSE path.name[Len(path.name)]

ext(f, path) ==
    IF ~isfile(f, path) THEN None
    ELSE IF Len(path.name) < 2 THEN None
    ELSE path.name[Len(path.name)]

Str(e) == IF e = None THEN "None" ELSE e

EndsWithMinNever(path, e) == FALSE

EndsWithMin(path, e) ==
    LET n == Len(path.name) IN
    n >= 3 /\ path.name[n - 1] = "min" /\ path.name[n] = Str(e)

SubMinAfter(path, e) ==
    LET n == Len(path.name) IN
    IF n >= 2 /\ path.name[n] = Str(e)
    THEN [path EXCEPT !.name = path.name \o <<"min">>]
    ELSE path

SubMin(path, e) ==
    LET n == Len(path.name) IN
    IF n >= 2 /\ path.name[n] = Str(e)
    THEN [path EXCEPT !.name = SubSeq(path.name, 1, n - 1) \o <<"min", Str(e)>>]
    ELSE path

(* glob(pattern, recursive=True): the existing entries of x the pattern    *)
(* matches, files and directories alike, in the order the directory scan   *)
(* hands them out, each spelled with the pattern's own directory part.     *)
Matches(kind, name) ==
    \/ kind = "*"
    \/ Len(name) >= 2 /\ name[Len(name)] = kind

glob(f, pattern, order) ==
    LET hit(n) == n \in DOMAIN f /\ Matches(pattern.kind, n)
        names == SelectSeq(order, hit)
    IN [i \in 1..Len(names) |-> [pre |-> pattern.pre, name |-> names[i]]]

Selected(f, filename) ==
    LET e == ext(f, filename) IN
    /\ ~EndsWithMin(filename, e)
    /\ handlers_get(e) # None

find_one(f, pattern, settings, order) ==
    LET found == glob(f, pattern, order)
        keep(p) == Selected(f, p)
        sel == SelectSeq(found, keep)
    IN [i \in 1..Len(sel) |->
          [path |-> sel[i],
           handler |-> handlers_get(ext(f, sel[i])),
           settings |-> settings]]

RECURSIVE find_files(_, _, _)
find_files(f, instr, order) ==
    IF instr = <<>> THEN <<>>
    ELSE find_one(f, Head(instr).pattern, Head(instr).settings, order)
         \o find_files(f, Tail(instr), order)

(* tasks[path] = (handler, settings) on an insertion-ordered dict: a key   *)
(* already present keeps its position and takes the new value.             *)
PutAppend(d, t) == Append(d, t)

PutFirst(d, t) ==
    IF \E i \in 1..Len(d) : d[i].path = t.path THEN d ELSE Append(d, t)

Put(d, t) ==
    IF \E i \in 1..Len(d) : d[i].path = t.path
    THEN [i \in 1..Len(d) |-> IF d[i].path = t.path THEN t ELSE d[i]]
    ELSE Append(d, t)

RECURSIVE MakeTasks(_, _)
MakeTasks(d, found) ==
    IF found = <<>> THEN d
    ELSE MakeTasks(Put(d, Head(found)), Tail(found))

PercentTenthsRounded(m, s) == (2000 * m + s) \div (2 * s)

PercentTenths(m, s) == (1000 * m) \div s

File(text) == [kind |-> "file", text |-> text]

Dir == [kind |-> "dir", text |-> <<>>]

InPlace(settings) ==
    IF "in_place" \in DOMAIN settings THEN settings["in_place"] ELSE FALSE

AcceptsAnyKeywords(settings) == TRUE

AcceptsKeywords(settings) == DOMAIN settings \subseteq {"in_place"}

IsEmptyNever(content) == FALSE

IsEmpty(content) == content = <<>>

Target(f, path, in_place) ==
    IF in_place THEN path ELSE SubMin(path, ext(f, path))

CanWrite(f, target) ==
    ~(target.name \in DOMAIN f /\ f[target.name].kind = "dir")

WriteFile(f, target, text) ==
    [n \in DOMAIN f \cup {target.name} |->
        IF n = target.name THEN File(text) ELSE f[n]]

NooLine(path) ==
    [kind |-> "NOO", path |-> path, target |-> path, src |-> 0, min |-> 0,
     percent |-> 0]

PathLine(path) ==
    [kind |-> "path", path |-> path, target |-> path, src |-> 0, min |-> 0,
     percent |-> 0]

SummaryLine(path, target, s, m) ==
    [kind |-> "summary", path |-> path, target |-> target, src |-> s,
     min |-> m, percent |-> PercentTenths(m, s)]

(* cls._execute(path, handler, **settings): what one call does to the file *)
(* system and the console, and how it ends.                                *)
execute(f, path, handler, settings) ==
    LET content == f[path.name].text
        minified == Call(handler, content)
        target == Target(f, path, InPlace(settings))
        base == [path |-> path, settings |-> settings, before |-> f,
                 read |-> <<>>, target |-> path, minified |-> <<>>,
                 outcome |-> "", fs |-> f, log |-> <<>>, divided |-> FALSE]
        lines == <<PathLine(path),
                   SummaryLine(path, target, Len(content), Len(minified))>>
    IN
    IF ~AcceptsKeywords(settings)
    THEN [base EXCEPT !.outcome = "TypeError"]
    ELSE IF IsEmpty(content)
    THEN [base EXCEPT !.outcome = "empty", !.log = <<NooLine(path)>>]
    ELSE IF Malformed(content)
    THEN [base EXCEPT !.outcome = "TransformError", !.read = content]
    ELSE IF Len(content) = 0
    THEN [base EXCEPT !.outcome = "ZeroDivisionError", !.read = content,
                      !.target = target, !.divided = TRUE]
    ELSE IF ~CanWrite(f, target)
    THEN [base EXCEPT !.outcome = "WriteError", !.read = content,
                      !.target = target, !.minified = minified,
                      !.log = lines, !.divided = TRUE]
    ELSE [base EXCEPT !.outcome = "ok", !.read = content,
                      !.target = target, !.minified = minified,
                      !.log = lines, !.divided = TRUE,
                      !.fs = WriteFile(f, target, minified)]

(* The directory x. *)
Ajs == <<"a", "js">>
AMinJs == <<"a", "min", "js">>
Scss == <<"s", "css">>
SMinCss == <<"s", "min", "css">>
Makefile == <<"Makefile">>
Atxt == <<"a", "txt">>

NameOrder == <<Ajs, AMinJs, Scss, SMinCss, Makefile, Atxt>>

Reverse(q) == [i \in 1..Len(q) |-> q[Len(q) + 1 - i]]

ScanOrders == {NameOrder, Reverse(NameOrder)}

Opt(name, contents, absent) ==
    {[n \in {name} |-> c] : c \in contents} \cup
    (IF absent THEN {[n \in {} |-> Dir]} ELSE {})

Merge(f, g) ==
    [n \in DOMAIN f \cup DOMAIN g |-> IF n \in DOMAIN f THEN f[n] ELSE g[n]]

InitialFiles ==
    LET junk == [n \in {Makefile, Atxt} |-> File(<<"c", "w">>)] IN
    {Merge(Merge(Merge(a, m), c), junk) :
        a \in Opt(Ajs, {Dir, File(<<>>), File(<<"c", "w", "k">>),
                        File(<<"w">>), File(<<"x">>)}, FALSE),
        m \in Opt(AMinJs, {Dir, File(<<"c", "c", "c", "c", "c">>)}, TRUE),
        c \in Opt(Scss, {File(<<"c", "s", "w">>), File(<<"x">>)}, TRUE)}

NoSettings == [k \in {} |-> TRUE]

SettingsRecords ==
    {NoSettings,
     [k \in {"in_place"} |-> TRUE],
     [k \in {"inplace"} |-> TRUE],
     [k \in {"in_place", "verbose"} |-> TRUE]}

Patterns == [pre : {"x/", "./x/"}, kind : {"*", "js"}]

Entries == [pattern : Patterns, settings : SettingsRecords]

(* json.load of an object: a dict, so no pattern occurs twice. *)
Configs ==
    UNION {{c \in [1..n -> Entries] :
               \A i, j \in 1..n : c[i].pattern = c[j].pattern => i = j} :
           n \in 1..MaxPatterns}

PathSet(d) == {d[i].path : i \in 1..Len(d)}

Init ==
    /\ fs \in InitialFiles
    /\ instructions \in Configs
    /\ tasks = <<>>
    /\ pc = "start"
    /\ idx = 1
    /\ log = <<>>
    /\ hist = <<>>
    /\ run = 1
    /\ firstTasks = {}
    /\ pSrc = 0
    /\ pMin = 0
    /\ pOut = 0

(* Minifier.minify, lines 48-50: the generator is run to its end and the   *)
(* dict is complete before line 52 starts.                                 *)
Resolve ==
    /\ pc = "start"
    /\ \E order \in ScanOrders :
         tasks' = MakeTasks(<<>>, find_files(fs, instructions, order))
    /\ pc' = IF tasks' = <<>> THEN "done" ELSE "resolved"
    /\ idx' = 1
    /\ firstTasks' = IF run = 1 THEN PathSet(tasks') ELSE firstTasks
    /\ UNCHANGED <<fs, instructions, log, hist, run, pSrc, pMin, pOut>>

Raised(outcome) == outcome \notin {"ok", "empty"}

AfterTaskContinue(outcome, i, n) ==
    IF i = n THEN "done" ELSE "resolved"

AfterTask(outcome, i, n) ==
    IF Raised(outcome) THEN "aborted"
    ELSE IF i = n THEN "done" ELSE "resolved"

(* Minifier.minify, lines 52-53: one turn of the loop, the whole call of   *)
(* _execute for the next task.                                             *)
Execute ==
    /\ pc = "resolved"
    /\ idx <= Len(tasks)
    /\ LET t == tasks[idx]
           r == execute(fs, t.path, t.handler, t.settings)
       IN /\ fs' = r.fs
          /\ log' = log \o r.log
          /\ hist' = Append(hist, r)
          /\ pc' = AfterTask(r.outcome, idx, Len(tasks))
          /\ idx' = idx + 1
    /\ UNCHANGED <<instructions, tasks, run, firstTasks, pSrc, pMin, pOut>>

(* main() invoked again on the same configuration file. *)
Main ==
    /\ pc \in {"done", "aborted"}
    /\ run < MaxRuns
    /\ run' = run + 1
    /\ pc' = "start"
    /\ tasks' = <<>>
    /\ idx' = 1
    /\ log' = <<>>
    /\ hist' = <<>>
    /\ UNCHANGED <<fs, instructions, firstTasks, pSrc, pMin, pOut>>

Next == Resolve \/ Execute \/ Main

Spec == Init /\ [][Next]_vars

(* The percentage of the summary line on its own, over source and minified *)
(* lengths the small files of Spec do not reach.                           *)
InitPercent ==
    /\ fs \in {[n \in {Ajs} |-> File(<<"c">>)]}
    /\ instructions = <<>>
    /\ tasks = <<>>
    /\ pc = "percent"
    /\ idx = 1
    /\ log = <<>>
    /\ hist = <<>>
    /\ run = 1
    /\ firstTasks = {}
    /\ pSrc \in (1..MaxSrcLen) \cup {1000}
    /\ pMin \in (0..MaxSrcLen) \cup {567}
    /\ pOut = 0

Report ==
    /\ pc = "percent"
    /\ pOut' = SummaryLine([pre |-> "x/", name |-> Ajs],
                           [pre |-> "x/", name |-> AMinJs], pSrc, pMin).percent
    /\ pc' = "reported"
    /\ UNCHANGED <<fs, instructions, tasks, idx, log, hist, run, firstTasks,
                   pSrc, pMin>>

NextPercent == Report

SpecPercent == InitPercent /\ [][NextPercent]_vars

----------------------------------------------------------------------------
(* Properties *)

Last(q) == q[Len(q)]

Registry(e, text) ==
    CASE e = "js" -> Filter(text, {"w"})
      [] e = "css" -> Filter(text, {"w", "s"})
      [] e \in {"html", "jinja2"} -> Filter(text, {"w", "k"})

WantsInPlace(settings) ==
    "in_place" \in DOMAIN settings /\ settings["in_place"] = TRUE

MinName(name) ==
    SubSeq(name, 1, Len(name) - 1) \o <<"min", name[Len(name)]>>

Destination(path, settings) ==
    IF WantsInPlace(settings) THEN path
    ELSE [pre |-> path.pre, name |-> MinName(path.name)]

(* C1: when _execute has returned for a task whose source file held a      *)
(* non-empty text T, the destination (the source path when in_place, else  *)
(* the path with its final .ext replaced by .min.ext) holds exactly f(T)   *)
(* for the transform f registered for the file's extension.                *)
C1_DestinationHoldsTransform ==
    hist # <<>> =>
      LET r == Last(hist)
          T == r.before[r.path.name].text
          dest == Destination(r.path, r.settings)
      IN (r.outcome \in {"ok", "empty"} /\ T # <<>>) =>
            /\ r.target = dest
            /\ dest.name \in DOMAIN fs
            /\ fs[dest.name] = File(Registry(Last(r.path.name), T))

C1_Witness ==
    /\ hist # <<>>
    /\ Last(hist).outcome = "ok"
    /\ ~WantsInPlace(Last(hist).settings)
    /\ Last(hist).path.name = Scss
    /\ fs[SMinCss] = File(<<"c">>)

Supported == {"js", "css", "html", "jinja2"}

GlobMatched ==
    UNION {{[pre |-> instructions[i].pattern.pre, name |-> n] :
              n \in {m \in DOMAIN fs :
                       \/ instructions[i].pattern.kind = "*"
                       \/ Len(m) >= 2 /\ Last(m) = instructions[i].pattern.kind}} :
           i \in 1..Len(instructions)}

AlreadyMinified(name) ==
    Len(name) >= 3 /\ name[Len(name) - 1] = "min"

Eligible(p) ==
    /\ fs[p.name].kind = "file"
    /\ Len(p.name) >= 2
    /\ Last(p.name) \in Supported
    /\ ~AlreadyMinified(p.name)

JustResolved == pc \in {"resolved", "done"} /\ hist = <<>>

(* C2: the paths _find_files yields are exactly the glob-matched paths     *)
(* that are regular files, have a dot in the base name, have a registered  *)
(* extension and do not end with .min.<ext>; directories, Makefile,        *)
(* unsupported extensions and minified files are never among them.         *)
C2_SelectedExactlyEligible ==
    JustResolved => PathSet(tasks) = {p \in GlobMatched : Eligible(p)}

C2_Witness ==
    /\ JustResolved
    /\ tasks # <<>>
    /\ \E p \in GlobMatched : p.name = Makefile
    /\ \E p \in GlobMatched : p.name = Atxt
    /\ \E p \in GlobMatched : p.name = AMinJs /\ fs[AMinJs].kind = "file"
    /\ \E p \in GlobMatched : p.name = Ajs /\ fs[Ajs].kind = "dir"

MatchesPath(entry, p) ==
    /\ entry.pattern.pre = p.pre
    /\ \/ entry.pattern.kind = "*"
       \/ Len(p.name) >= 2 /\ Last(p.name) = entry.pattern.kind

Matching(p) == {i \in 1..Len(instructions) : MatchesPath(instructions[i], p)}

LastMatching(p) == CHOOSE i \in Matching(p) : \A j \in Matching(p) : j <= i

TasksFor(p) == {i \in 1..Len(tasks) : tasks[i].path = p}

RunsOf(p) == {i \in 1..Len(hist) : hist[i].path = p}

(* C3: a path matched by several patterns is one task, executed once in    *)
(* the run, with the options record of the last pattern that matches it;   *)
(* when that record asks for in_place the one write goes to the path       *)
(* itself.                                                                 *)
C3_LastPatternWinsOnce ==
    pc # "start" =>
      \A p \in PathSet(tasks) :
        /\ Cardinality(TasksFor(p)) = 1
        /\ \A i \in TasksFor(p) :
             tasks[i].settings = instructions[LastMatching(p)].settings
        /\ Cardinality(RunsOf(p)) <= 1
        /\ pc = "done" => Cardinality(RunsOf(p)) = 1
        /\ \A i \in RunsOf(p) :
             /\ hist[i].settings = instructions[LastMatching(p)].settings
             /\ (hist[i].outcome = "ok" /\ WantsInPlace(hist[i].settings))
                   => hist[i].target = p

C3_Witness ==
    /\ pc = "done"
    /\ \E p \in PathSet(tasks) :
         /\ Cardinality(Matching(p)) = 2
         /\ ~WantsInPlace(instructions[1].settings)
         /\ instructions[2].settings = [k \in {"in_place"} |-> TRUE]
         /\ \E i \in RunsOf(p) : hist[i].outcome = "ok" /\ hist[i].target = p
         /\ AMinJs \notin DOMAIN fs
         /\ p.name = Ajs

UnknownKeys(settings) == DOMAIN settings \ {"in_place"}

(* C4, as stated: keys of an options record other than in_place are        *)
(* ignored, and no run fails because of them.                              *)
C4_UnknownKeysIgnored ==
    \A i \in 1..Len(hist) :
        LET r == hist[i]
            kept == [k \in DOMAIN r.settings \cap {"in_place"} |-> r.settings[k]]
            clean == execute(r.before, r.path, tasks[i].handler, kept)
        IN r.outcome = clean.outcome /\ r.fs = clean.fs

(* C4, amended: the call of _execute for a task whose options record has a *)
(* key other than in_place fails with a TypeError before the file is read  *)
(* or anything is written or printed, and the run aborts there; the tasks  *)
(* before it have run as usual, and no other task ends in a TypeError.     *)
C4_UnknownKeyAbortsAtTask ==
    \A i \in 1..Len(hist) :
        /\ (UnknownKeys(hist[i].settings) # {}) <=> (hist[i].outcome = "TypeError")
        /\ hist[i].outcome = "TypeError" =>
             /\ i = Len(hist)
             /\ pc = "aborted"
             /\ fs = hist[i].before
             /\ hist[i].log = <<>>
             /\ \A j \in 1..(i - 1) : ~Raised(hist[j].outcome)

C4_Witness ==
    /\ Len(hist) = 2
    /\ hist[1].outcome = "ok"
    /\ hist[2].outcome = "TypeError"
    /\ hist[2].settings = [k \in {"in_place", "verbose"} |-> TRUE]
    /\ Len(tasks) > 2

(* C5: a transform failure ends the run at that task: the failing task     *)
(* writes and prints nothing, no later task is executed, and every file an *)
(* earlier task of the run wrote still holds what was last written to it.  *)
C5_TransformFailureAborts ==
    \A i \in 1..Len(hist) :
        hist[i].outcome = "TransformError" =>
            /\ i = Len(hist)
            /\ pc = "aborted"
            /\ fs = hist[i].before
            /\ \A j \in 1..(i - 1) :
                 (/\ hist[j].outcome = "ok"
                  /\ \A k \in (j + 1)..(i - 1) :
                       hist[k].outcome = "ok" =>
                           hist[k].target.name # hist[j].target.name)
                 => fs[hist[j].target.name] = File(hist[j].minified)

C5_Witness ==
    /\ Len(hist) = 2
    /\ hist[1].outcome = "ok"
    /\ hist[2].outcome = "TransformError"
    /\ Len(tasks) > 2
    /\ fs[hist[1].target.name] = File(hist[1].minified)
    /\ hist[1].before # fs

DoubleMin(name) ==
    Len(name) >= 4 /\ name[Len(name) - 1] = "min" /\ name[Len(name) - 2] = "min"

(* C7: over repeated runs on one configuration no task is ever a path that *)
(* ends with .min.<ext>, so no .min.min.<ext> file appears and every later *)
(* run resolves the task paths of the first; an a.min.js that is already   *)
(* there is not a task and is overwritten with the output of a.js.         *)
C7_DerivedFilesNeverSelected ==
    /\ \A n \in DOMAIN fs : ~DoubleMin(n)
    /\ pc # "start" =>
         /\ \A p \in PathSet(tasks) : ~AlreadyMinified(p.name)
         /\ PathSet(tasks) = firstTasks
    /\ \A i \in 1..Len(hist) :
         (/\ hist[i].outcome = "ok"
          /\ hist[i].path.name = Ajs
          /\ ~WantsInPlace(hist[i].settings)) =>
             /\ hist[i].target.name = AMinJs
             /\ hist[i].fs[AMinJs] = File(Registry("js", hist[i].before[Ajs].text))

C7_Witness ==
    /\ run = 2
    /\ pc = "done"
    /\ hist # <<>>
    /\ Last(hist).outcome = "ok"
    /\ Last(hist).target.name = AMinJs
    /\ Last(hist).before[AMinJs] = File(<<"c", "k">>)
    /\ SMinCss \in DOMAIN Last(hist).before
    /\ \E i \in 1..Len(instructions) : instructions[i].pattern.kind = "*"

Written(target) ==
    \E j \in 1..Len(hist) :
        /\ hist[j].outcome = "ok"
        /\ hist[j].target = target
        /\ hist[j].fs[target.name] = File(hist[j].minified)

(* C8: a summary line on the console means the minified text has been      *)
(* written to the destination it names: no log entry for a file that was   *)
(* not written.                                                            *)
C8_LoggedOnlyAfterWrite ==
    \A i \in 1..Len(log) :
        log[i].kind \in {"path", "summary"} =>
            \E j \in 1..Len(hist) :
                /\ hist[j].path = log[i].path
                /\ Written(hist[j].target)

(* C9: the percentage printed, in tenths of a percent, is                  *)
(* floor(1000 * m / s): 56.7 for s = 1000, m = 567 and 66.6 for s = 3,     *)
(* m = 2.                                                                  *)
C9_PercentTruncates ==
    pc = "reported" =>
        /\ pOut * pSrc <= 1000 * pMin
        /\ 1000 * pMin < (pOut + 1) * pSrc
        /\ (pSrc = 1000 /\ pMin = 567) => pOut = 567
        /\ (pSrc = 3 /\ pMin = 2) => pOut = 666

C9_Witness == pc = "reported" /\ pSrc = 3 /\ pMin = 2 /\ pOut = 666

Reads(r) == r.outcome # "TypeError"

TaskDestination(i) == Destination(tasks[i].path, tasks[i].settings)

ExecutedInListOrder ==
    /\ Len(hist) <= Len(tasks)
    /\ \A i \in 1..Len(hist) :
         /\ hist[i].path = tasks[i].path
         /\ hist[i].path.name \in DOMAIN hist[1].before
         /\ hist[1].before[hist[i].path.name].kind = "file"

(* C10, as stated: the task list is complete before the first task runs,   *)
(* and no task reads or overwrites a file that another task of the run has *)
(* written.                                                                *)
C10_NoTaskTouchesAnothersFile ==
    /\ ExecutedInListOrder
    /\ \A i, j \in 1..Len(hist) :
         (i < j /\ hist[i].outcome = "ok") =>
            /\ Reads(hist[j]) => hist[j].path.name # hist[i].target.name
            /\ hist[j].outcome = "ok" =>
                  hist[j].target.name # hist[i].target.name

(* C10, amended: the task list is complete before the first task runs, and *)
(* for two distinct tasks A and B the destination path string of A is      *)
(* neither the source path string nor the destination path string of B;    *)
(* every write of the run goes to the destination path of its own task.    *)
C10_DestinationPathsDistinct ==
    /\ ExecutedInListOrder
    /\ pc # "start" =>
         \A i, j \in 1..Len(tasks) :
            i # j => /\ TaskDestination(i) # tasks[j].path
                     /\ TaskDestination(i) # TaskDestination(j)
    /\ \A i \in 1..Len(hist) :
         hist[i].outcome = "ok" =>
            /\ hist[i].target = TaskDestination(i)
            /\ \A n \in DOMAIN hist[i].fs :
                 n # hist[i].target.name =>
                    (n \in DOMAIN hist[i].before /\ hist[i].fs[n] = hist[i].before[n])

C10_Witness ==
    /\ pc = "done"
    /\ Len(hist) = 2
    /\ hist[1].outcome = "ok"
    /\ hist[2].outcome = "ok"
    /\ hist[1].path # hist[2].path
    /\ hist[1].path.name = hist[2].path.name
    /\ hist[1].target.name = hist[2].path.name
    /\ hist[2].read = hist[1].minified
    /\ hist[2].read # hist[1].read

====
